---- MODULE Spec2Model ----
(***************************************************************************)
(* Model of qpswift_solve_qp (src/qpsolvers/solvers/qpswift_.py), the      *)
(* adapter between the qpsolvers interface and the qpSWIFT backend.        *)
(*                                                                         *)
(* One call of the function is a walk of pc through the lines of its body: *)
(*   "L125" warm-start notice, "L127" option set-up, "L132" routing,       *)
(*   "run"  the backend qpSWIFT.run is executing, "L142" result            *)
(*   translation, "done" the call has returned or raised.                  *)
(* Matrices and vectors are opaque tokens: the adapter never looks inside  *)
(* them, it only tests them against None and hands them on.  Dictionaries  *)
(* are functions from a finite set of string keys.  The backend is an      *)
(* external collaborator: what it returns (or raises) is a nondeterministic*)
(* choice; it is taken not to write to the arguments it is handed.         *)
(***************************************************************************)
EXTENDS Integers, Sequences, FiniteSets, TLC

VARIABLES
    pc,          \* position in the body of qpswift_solve_qp, or "idle"
    P, q,        \* cost matrix and vector of the call
    G, h,        \* inequality block, each member a token or None
    A, b,        \* equality block, each member a token or None
    initvals,    \* warm-start vector or None
    verbose,     \* BOOLEAN
    opts,        \* the local name opts: None, or a reference to a dict
    callerOpts,  \* content of the dict owned by the caller
    localOpts,   \* content of the dict created at line 129
    result,      \* the local name result
    stdout,      \* lines printed by the call in progress
    backendCall, \* invocations of qpSWIFT.run made by the call in progress
    outcome,     \* how the call ended: returned value or raised error
    opts0,       \* content of the caller's dict when the call was made
    prev         \* the finished call a repeated call is compared with

vars == <<pc, P, q, G, h, A, b, initvals, verbose, opts, callerOpts,
          localOpts, result, stdout, backendCall, outcome, opts0, prev>>

----------------------------------------------------------------------------
(* Bounds and input domains *)

\* exit flags the backend may report are 0 .. MaxExitFlag
MaxExitFlag == 2
\* values a caller stores under a tuning key are 1 .. MaxTuning
MaxTuning == 1

None == "None"
CallerRef == "caller"
LocalRef == "local"

EmptyDict == [k \in {} |-> 0]

DictSet(d, k, v) == [x \in (DOMAIN d) \cup {k} |-> IF x = k THEN v ELSE d[x]]

ReservedKeys == {"OUTPUT", "VERBOSE"}

\* dictionaries a caller may hand in: none of the reserved keys, both of them
\* with values that differ from what the adapter computes, and one of them
CallerDicts ==
    {EmptyDict}
    \cup {[MAXITER |-> t] : t \in 1..MaxTuning}
    \cup {[OUTPUT |-> 0, VERBOSE |-> v, MAXITER |-> t] :
              v \in {1, 5}, t \in 1..MaxTuning}

Solutions == {"x1", "x2"}

\* what qpSWIFT.run may hand back: with OUTPUT = 1 a dict holding "sol" and
\* "basicInfo"; a dict missing one of the fields stands for a malformed result
BackendResults ==
    {[basicInfo |-> [ExitFlag |-> e], sol |-> x] :
         e \in 0..MaxExitFlag, x \in Solutions}
    \cup {[basicInfo |-> [ExitFlag |-> e]] : e \in 0..MaxExitFlag}
    \cup {[basicInfo |-> EmptyDict, sol |-> x] : x \in Solutions}
    \cup {[sol |-> x] : x \in Solutions}

NoOutcome == [kind |-> "none", value |-> None]
Returned(v) == [kind |-> "return", value |-> v]
Raised(e) == [kind |-> "raise", value |-> e]

WarmStartNotice == "qpSWIFT: note that warm-start values ignored by wrapper"

----------------------------------------------------------------------------
(* The heap: the dict a reference stands for *)

Deref(ref) == IF ref = CallerRef THEN callerOpts ELSE localOpts

----------------------------------------------------------------------------
(* Pure parts of the body *)

\* line 131: 1 if verbose else 0
VerboseFlag(v) == IF v THEN 1 ELSE 0

\* a reserved key is written only when the caller has not set it
WithReservedDefaults(d, v) ==
    LET d1 == IF "OUTPUT" \in DOMAIN d THEN d ELSE DictSet(d, "OUTPUT", 1)
    IN  IF "VERBOSE" \in DOMAIN d1 THEN d1
        ELSE DictSet(d1, "VERBOSE", VerboseFlag(v))

\* the mapping handed on is built anew from the two reserved keys
WithReservedFresh(d, v) == [OUTPUT |-> 1, VERBOSE |-> VerboseFlag(v)]

\* lines 130-131: the two assignments to opts
WithReserved(d, v) == DictSet(DictSet(d, "OUTPUT", 1), "VERBOSE", VerboseFlag(v))

\* an equality block alone is routed to the backend as well
HasAnyBlock(g, hh) == (g # None /\ hh # None) \/ (A # None /\ b # None)

\* line 132
HasInequality(g, hh) == g # None /\ hh # None

\* one member of the equality block is taken for the block
HasEqualityEither(a, bb) == a # None \/ bb # None

\* line 133
HasEquality(a, bb) == a # None /\ bb # None

\* the arguments in the order of the adapter's own signature
FullFormCostFirst(ref) ==
    [args |-> <<P, q, G, h, A, b, ref>>, kwargs |-> EmptyDict]

\* line 134: qpSWIFT.run(q, h, P, G, A, b, opts)
FullForm(ref) == [args |-> <<q, h, P, G, A, b, ref>>, kwargs |-> EmptyDict]

\* the options handed over as a fifth positional argument
IneqFormPositional(ref) == [args |-> <<q, h, P, G, ref>>, kwargs |-> EmptyDict]

\* line 136: qpSWIFT.run(q, h, P, G, opts=opts)
IneqForm(ref) == [args |-> <<q, h, P, G>>, kwargs |-> [opts |-> ref]]

\* the solution is handed back without a look at the exit flag
TranslationNoFlagCheck(r) ==
    IF "basicInfo" \notin DOMAIN r THEN Raised("KeyError")
    ELSE IF "ExitFlag" \notin DOMAIN r["basicInfo"] THEN Raised("KeyError")
    ELSE IF "sol" \notin DOMAIN r THEN Raised("KeyError")
    ELSE Returned(r["sol"])

\* missing fields are read with a default instead of by subscript
TranslationLenient(r) ==
    IF "basicInfo" \notin DOMAIN r THEN Returned(None)
    ELSE IF "ExitFlag" \notin DOMAIN r["basicInfo"] THEN Returned(None)
    ELSE IF r["basicInfo"]["ExitFlag"] # 0 THEN Returned(None)
    ELSE IF "sol" \notin DOMAIN r THEN Returned(None)
    ELSE Returned(r["sol"])

\* lines 142-145
Translation(r) ==
    IF "basicInfo" \notin DOMAIN r THEN Raised("KeyError")
    ELSE IF "ExitFlag" \notin DOMAIN r["basicInfo"] THEN Raised("KeyError")
    ELSE IF r["basicInfo"]["ExitFlag"] # 0 THEN Returned(None)
    ELSE IF "sol" \notin DOMAIN r THEN Raised("KeyError")
    ELSE Returned(r["sol"])

----------------------------------------------------------------------------
Init ==
    /\ pc = "idle"
    /\ P = "P" /\ q = "q"
    /\ G = None /\ h = None /\ A = None /\ b = None
    /\ initvals = None
    /\ verbose = FALSE
    /\ opts = None
    /\ callerOpts \in CallerDicts
    /\ localOpts = EmptyDict
    /\ result = EmptyDict
    /\ stdout = <<>>
    /\ backendCall = <<>>
    /\ outcome = NoOutcome
    /\ opts0 = callerOpts
    /\ prev = <<>>

\* the frame of a call being made: the locals and the record of the call
\* in progress start afresh
Enter ==
    /\ pc' = "L125"
    /\ P' = "P" /\ q' = "q"
    /\ localOpts' = EmptyDict
    /\ result' = EmptyDict
    /\ stdout' = <<>>
    /\ backendCall' = <<>>
    /\ outcome' = NoOutcome

\* lines 41-51: a caller calls qpswift_solve_qp(P, q, G, h, A, b, initvals,
\* verbose, opts); opts is None, a mapping the caller has just filled in, or
\* the mapping of an earlier call used again as it is
Call ==
    /\ pc = "idle"
    /\ Enter
    /\ G' \in {None, "G"} /\ h' \in {None, "h"}
    /\ A' \in {None, "A"} /\ b' \in {None, "b"}
    /\ initvals' \in {None, "x0"}
    /\ verbose' \in BOOLEAN
    /\ \/ opts' = None /\ callerOpts' = callerOpts
       \/ opts' = CallerRef /\ callerOpts' \in CallerDicts
       \/ opts' = CallerRef /\ callerOpts' = callerOpts
    /\ opts0' = callerOpts'
    /\ prev' = <<>>

\* the caller repeats the call it has just finished, changing initvals only
\* (the mapping it passes holds what it held when the first call was made)
CallAgain ==
    /\ pc = "done"
    /\ prev = <<>>
    /\ Enter
    /\ UNCHANGED <<G, h, A, b, verbose>>
    /\ initvals' = IF initvals = None THEN "x0" ELSE None
    /\ opts' = IF opts = CallerRef THEN CallerRef ELSE None
    /\ callerOpts' = opts0
    /\ opts0' = opts0
    /\ prev' = <<[initvals |-> initvals, stdout |-> stdout,
                  calls |-> backendCall, result |-> result,
                  outcome |-> outcome]>>

\* a warm start is refused instead of being announced as ignored
NoticeAsError ==
    /\ pc = "L125"
    /\ IF initvals # None
       THEN outcome' = Raised("ValueError") /\ pc' = "done"
       ELSE outcome' = outcome /\ pc' = "L127"
    /\ UNCHANGED <<P, q, G, h, A, b, initvals, verbose, opts, callerOpts,
                   localOpts, result, stdout, backendCall, opts0, prev>>

\* lines 125-126
Notice ==
    /\ pc = "L125"
    /\ stdout' = IF initvals # None THEN Append(stdout, WarmStartNotice)
                 ELSE stdout
    /\ pc' = "L127"
    /\ UNCHANGED <<P, q, G, h, A, b, initvals, verbose, opts, callerOpts,
                   localOpts, result, backendCall, outcome, opts0, prev>>

\* the problem shape is checked before the options are touched
SetOptsAfterCheck ==
    /\ pc = "L127"
    /\ result' = EmptyDict
    /\ IF ~HasInequality(G, h)
       THEN /\ outcome' = Raised("NotImplementedError")
            /\ pc' = "done"
            /\ opts' = IF opts = None THEN LocalRef ELSE opts
            /\ UNCHANGED <<callerOpts, localOpts>>
       ELSE /\ outcome' = outcome
            /\ pc' = "L132"
            /\ IF opts = None
               THEN /\ opts' = LocalRef
                    /\ localOpts' = WithReserved(EmptyDict, verbose)
                    /\ callerOpts' = callerOpts
               ELSE /\ opts' = opts
                    /\ callerOpts' = WithReserved(callerOpts, verbose)
                    /\ localOpts' = localOpts
    /\ UNCHANGED <<P, q, G, h, A, b, initvals, verbose, stdout, backendCall,
                   opts0, prev>>

\* lines 127-131
SetOpts ==
    /\ pc = "L127"
    /\ result' = EmptyDict
    /\ IF opts = None
       THEN /\ opts' = LocalRef
            /\ localOpts' = WithReserved(EmptyDict, verbose)
            /\ callerOpts' = callerOpts
       ELSE /\ opts' = opts
            /\ callerOpts' = WithReserved(callerOpts, verbose)
            /\ localOpts' = localOpts
    /\ pc' = "L132"
    /\ UNCHANGED <<P, q, G, h, A, b, initvals, verbose, stdout, backendCall,
                   outcome, opts0, prev>>

\* lines 132-141: the routing; the backend is entered or the error is raised
Route ==
    /\ pc = "L132"
    /\ IF HasInequality(G, h)
       THEN /\ backendCall' =
                Append(backendCall,
                       [call |-> IF HasEquality(A, b) THEN FullForm(opts)
                                 ELSE IneqForm(opts),
                        seen |-> Deref(opts)])
            /\ pc' = "run"
            /\ outcome' = outcome
       ELSE /\ outcome' = Raised("NotImplementedError")
            /\ pc' = "done"
            /\ backendCall' = backendCall
    /\ UNCHANGED <<P, q, G, h, A, b, initvals, verbose, opts, callerOpts,
                   localOpts, result, stdout, opts0, prev>>

\* qpSWIFT.run, called at line 134 or 136, returns a result, which the
\* assignment of that line stores, or raises, which ends the call
Run ==
    /\ pc = "run"
    /\ \/ /\ result' \in BackendResults
          /\ pc' = "L142"
          /\ outcome' = outcome
       \/ /\ outcome' = Raised("BackendError")
          /\ pc' = "done"
          /\ result' = result
    /\ UNCHANGED <<P, q, G, h, A, b, initvals, verbose, opts, callerOpts,
                   localOpts, stdout, backendCall, opts0, prev>>

\* lines 142-145
Translate ==
    /\ pc = "L142"
    /\ outcome' = Translation(result)
    /\ pc' = "done"
    /\ UNCHANGED <<P, q, G, h, A, b, initvals, verbose, opts, callerOpts,
                   localOpts, result, stdout, backendCall, opts0, prev>>

\* lines 139, 144, 145: the call is over; its frame is gone and the caller
\* is left with the mapping it owns
Finish ==
    /\ pc = "done"
    /\ pc' = "idle"
    /\ G' = None /\ h' = None /\ A' = None /\ b' = None
    /\ initvals' = None
    /\ verbose' = FALSE
    /\ opts' = None
    /\ localOpts' = EmptyDict
    /\ result' = EmptyDict
    /\ stdout' = <<>>
    /\ backendCall' = <<>>
    /\ outcome' = NoOutcome
    /\ opts0' = callerOpts
    /\ prev' = <<>>
    /\ UNCHANGED <<P, q, callerOpts>>

Next ==
    \/ Call \/ CallAgain \/ Notice \/ SetOpts \/ Route \/ Run \/ Translate
    \/ Finish

Spec == Init /\ [][Next]_vars

----------------------------------------------------------------------------
(* Shorthands for the properties *)

\* the routing decision of the call in progress has been taken
Routed == pc \in {"run", "L142", "done"}

\* the backend handed back a result that carries an exit flag
HasExitFlag(r) == "basicInfo" \in DOMAIN r /\ "ExitFlag" \in DOMAIN r["basicInfo"]

\* the only invocation of the backend made by the call in progress
TheCall == backendCall[1]

\* d and e agree on every key that is not one of the two reserved ones
SameTuning(d, e) ==
    /\ (DOMAIN d) \ ReservedKeys = (DOMAIN e) \ ReservedKeys
    /\ \A k \in (DOMAIN d) \ ReservedKeys : d[k] = e[k]

----------------------------------------------------------------------------
\* C1: a call with neither G nor h raises NotImplementedError, whatever the
\* other arguments are, and qpSWIFT.run is not invoked in that call.
C1_NoInequalityRaises ==
    /\ (pc # "idle" /\ G = None /\ h = None) =>
           (backendCall = <<>> /\ pc \notin {"run", "L142"})
    /\ (pc = "done" /\ G = None /\ h = None) =>
           outcome = [kind |-> "raise", value |-> "NotImplementedError"]

C1_Witness ==
    /\ pc = "done" /\ G = None /\ h = None
    /\ A # None /\ b # None /\ initvals # None /\ verbose /\ opts = CallerRef
    /\ outcome.kind = "raise"

\* C2: when the backend's result carries an exit flag other than 0 the call
\* returns None, never the solution field; when the flag is 0 it returns the
\* solution field itself.
C2_ExitFlagDecides ==
    (pc = "done" /\ backendCall # <<>> /\ HasExitFlag(result)) =>
        IF result["basicInfo"]["ExitFlag"] # 0
        THEN outcome = [kind |-> "return", value |-> None]
        ELSE "sol" \in DOMAIN result =>
                 outcome = [kind |-> "return", value |-> result["sol"]]

C2_Witness ==
    /\ pc = "done" /\ backendCall # <<>> /\ HasExitFlag(result)
    /\ result["basicInfo"]["ExitFlag"] # 0
    /\ "sol" \in DOMAIN result
    /\ outcome.kind = "return" /\ outcome.value = None

\* C3: with G and h present and A and b both absent the backend is invoked
\* once, with the positional arguments (q, h, P, G), the options mapping under
\* the keyword opts and no equality argument; on exit flag 0 the solution of
\* the backend is what the call returns.
C3_InequalityOnlyForm ==
    /\ (Routed /\ G # None /\ h # None /\ A = None /\ b = None) =>
           /\ Len(backendCall) = 1
           /\ TheCall.call.args = <<q, h, P, G>>
           /\ TheCall.call.kwargs = [opts |-> opts]
    /\ (pc = "done" /\ G # None /\ h # None /\ A = None /\ b = None
            /\ HasExitFlag(result) /\ "sol" \in DOMAIN result) =>
           (result["basicInfo"]["ExitFlag"] = 0 =>
                outcome = [kind |-> "return", value |-> result["sol"]])

C3_Witness ==
    /\ pc = "done" /\ G = "G" /\ h = "h" /\ A = None /\ b = None
    /\ Len(backendCall) = 1
    /\ HasExitFlag(result) /\ result["basicInfo"]["ExitFlag"] = 0
    /\ outcome = [kind |-> "return", value |-> "x2"]

\* C4: with G, h, A and b all present the backend is invoked once, with the
\* positional arguments (q, h, P, G, A, b, opts) in that order and no keyword.
C4_FullForm ==
    (Routed /\ G # None /\ h # None /\ A # None /\ b # None) =>
        /\ Len(backendCall) = 1
        /\ TheCall.call.args = <<q, h, P, G, A, b, opts>>
        /\ TheCall.call.kwargs = EmptyDict

C4_Witness ==
    /\ pc = "run" /\ G = "G" /\ h = "h" /\ A = "A" /\ b = "b"
    /\ Len(backendCall) = 1
    /\ TheCall.call.args[5] = "A"

\* C5: the mapping the backend receives has OUTPUT = 1 and VERBOSE = 1 if
\* verbose else 0, whatever the caller had stored under those keys, also when
\* the mapping of an earlier call is passed again with another verbose.
C5_ReservedKeysForced ==
    \A i \in DOMAIN backendCall :
        /\ ReservedKeys \subseteq DOMAIN backendCall[i].seen
        /\ backendCall[i].seen["OUTPUT"] = 1
        /\ backendCall[i].seen["VERBOSE"] = (IF verbose THEN 1 ELSE 0)

\* the mapping comes from an earlier call made with verbose off (no caller's
\* own mapping holds OUTPUT = 1), and is passed again with verbose on
C5_Witness ==
    /\ backendCall # <<>>
    /\ opts = CallerRef /\ verbose
    /\ "VERBOSE" \in DOMAIN opts0 /\ opts0["VERBOSE"] = 0
    /\ opts0["OUTPUT"] = 1
    /\ TheCall.seen["VERBOSE"] = 1

\* C6: a call and its repetition with another initvals invoke the backend in
\* the same way (or both raise the same error) and, the backend answering the
\* same, end the same; the notice is printed exactly when initvals is given.
C6_InitvalsIgnored ==
    /\ (pc \notin {"idle", "L125"}) =>
           (stdout = IF initvals # None THEN <<WarmStartNotice>> ELSE <<>>)
    /\ (prev # <<>> /\ Routed) =>
           /\ prev[1].initvals # initvals
           /\ backendCall = prev[1].calls
    /\ (prev # <<>> /\ pc = "done" /\ result = prev[1].result) =>
           outcome = prev[1].outcome

C6_Witness ==
    /\ prev # <<>> /\ pc = "done"
    /\ initvals # None /\ prev[1].initvals = None
    /\ stdout # <<>> /\ prev[1].stdout = <<>>
    /\ backendCall # <<>> /\ backendCall = prev[1].calls
    /\ outcome.kind = "return" /\ outcome.value \in Solutions
    /\ outcome = prev[1].outcome

\* C7 as stated: the only error a call ever raises is NotImplementedError for
\* a problem without inequality block; a backend error or a malformed backend
\* result ends the call with None.
C7_OnlyStructuralError ==
    (pc = "done" /\ outcome.kind = "raise") =>
        (outcome.value = "NotImplementedError" /\ ~(G # None /\ h # None))

\* C7 amended: NotImplementedError is the only error the adapter raises on
\* its own account, and it does so exactly when G or h is missing; a result
\* with a non-zero exit flag ends the call with None; an error raised inside
\* qpSWIFT.run reaches the caller, and a result without basicInfo, without
\* ExitFlag, or with exit flag 0 and no sol raises KeyError.
C7_ErrorsOfACall ==
    pc = "done" =>
        /\ (outcome.value = "NotImplementedError") = ~(G # None /\ h # None)
        /\ (G # None /\ h # None) =>
               \/ outcome = [kind |-> "raise", value |-> "BackendError"]
                      /\ result = EmptyDict
               \/ /\ result # EmptyDict
                  /\ IF ~HasExitFlag(result)
                     THEN outcome = [kind |-> "raise", value |-> "KeyError"]
                     ELSE IF result["basicInfo"]["ExitFlag"] # 0
                     THEN outcome = [kind |-> "return", value |-> None]
                     ELSE IF "sol" \notin DOMAIN result
                     THEN outcome = [kind |-> "raise", value |-> "KeyError"]
                     ELSE outcome.kind = "return"

C7_Witness ==
    /\ pc = "done" /\ G # None /\ h # None
    /\ "basicInfo" \notin DOMAIN result /\ "sol" \in DOMAIN result
    /\ outcome = [kind |-> "raise", value |-> "KeyError"]

\* C8: a call writes the two reserved keys of the options mapping and nothing
\* else: the other keys of a caller's mapping keep their values, reach the
\* backend with them and none is added or dropped; without a caller's mapping
\* the backend gets a mapping of exactly the two reserved keys and the
\* caller's own mapping is left alone; P, q, G, h, A, b reach the backend as
\* given and keep their values for the whole call.
C8_StateFrame ==
    pc # "idle" =>
        /\ SameTuning(callerOpts, opts0)
        /\ \A k \in DOMAIN opts0 : k \in DOMAIN callerOpts
        /\ opts \in {None, LocalRef} => callerOpts = opts0
        /\ pc \in {"L125", "L127"} => callerOpts = opts0
        /\ (opts = CallerRef /\ pc \notin {"L125", "L127"}) =>
               DOMAIN callerOpts = (DOMAIN opts0) \cup ReservedKeys
        /\ (opts = LocalRef) => DOMAIN localOpts = ReservedKeys
        /\ \A i \in DOMAIN backendCall :
               /\ backendCall[i].seen =
                      (IF opts = CallerRef THEN callerOpts ELSE localOpts)
               /\ opts = CallerRef => SameTuning(backendCall[i].seen, opts0)
               /\ SubSeq(backendCall[i].call.args, 1, 4) = <<q, h, P, G>>
               /\ Len(backendCall[i].call.args) > 4 =>
                      SubSeq(backendCall[i].call.args, 5, 6) = <<A, b>>

C8_OnlyReservedKeysWritten ==
    /\ []C8_StateFrame
    /\ [][pc \notin {"idle", "done"} =>
              <<P, q, G, h, A, b>>' = <<P, q, G, h, A, b>>]_vars

C8_Witness ==
    /\ pc = "done" /\ opts = CallerRef /\ backendCall # <<>>
    /\ DOMAIN opts0 = {"MAXITER"}
    /\ DOMAIN callerOpts = {"MAXITER", "OUTPUT", "VERBOSE"}
    /\ callerOpts["MAXITER"] = opts0["MAXITER"]
    /\ TheCall.seen = callerOpts

\* C9: a block counts as present only when both members are given: with one
\* of G, h the call raises NotImplementedError as with neither, and with G, h
\* and one of A, b the backend is invoked in the inequality-only form, the
\* lone equality member dropped.
C9_HalfBlockIsAbsent ==
    /\ (pc = "done" /\ (G = None) # (h = None)) =>
           /\ outcome = [kind |-> "raise", value |-> "NotImplementedError"]
           /\ backendCall = <<>>
    /\ (Routed /\ G # None /\ h # None /\ (A = None) # (b = None)) =>
           /\ Len(backendCall) = 1
           /\ TheCall.call = [args |-> <<q, h, P, G>>, kwargs |-> [opts |-> opts]]

C9_Witness ==
    /\ pc = "run" /\ G # None /\ h # None /\ A # None /\ b = None
    /\ Len(backendCall) = 1
    /\ Len(TheCall.call.args) = 4

\* C10: the notice comes first, the write of the reserved keys second and the
\* routing third, so that when NotImplementedError is raised the mapping the
\* caller passed already holds OUTPUT and VERBOSE and the notice is out.
C10_EffectsBeforeRouting ==
    /\ pc = "L127" =>
           /\ stdout = (IF initvals # None THEN <<WarmStartNotice>> ELSE <<>>)
           /\ callerOpts = opts0 /\ opts # LocalRef
           /\ backendCall = <<>> /\ outcome.kind = "none"
    /\ pc = "L132" =>
           /\ stdout = (IF initvals # None THEN <<WarmStartNotice>> ELSE <<>>)
           /\ opts # None
           /\ ReservedKeys \subseteq DOMAIN Deref(opts)
           /\ Deref(opts)["OUTPUT"] = 1
           /\ Deref(opts)["VERBOSE"] = (IF verbose THEN 1 ELSE 0)
           /\ backendCall = <<>> /\ outcome.kind = "none"
    /\ (pc = "done" /\ outcome.value = "NotImplementedError") =>
           /\ stdout = (IF initvals # None THEN <<WarmStartNotice>> ELSE <<>>)
           /\ opts # None
           /\ ReservedKeys \subseteq DOMAIN Deref(opts)
           /\ Deref(opts)["OUTPUT"] = 1
           /\ Deref(opts)["VERBOSE"] = (IF verbose THEN 1 ELSE 0)

C10_Witness ==
    /\ pc = "done" /\ outcome.value = "NotImplementedError"
    /\ opts = CallerRef /\ initvals # None
    /\ opts0 = EmptyDict /\ callerOpts # opts0
    /\ stdout = <<WarmStartNotice>>

====
